---- MODULE Spec2Model ----
(***************************************************************************)
(* Model of fisher's job-processing core.                                  *)
(*                                                                         *)
(*  - processor/thread.rs: the park/unpark worker (Thread), step by step:  *)
(*    every atomic load, mutex-protected take, park and unpark is a step.  *)
(*  - app.rs: RunningFisher::reload, one step per statement.               *)
(*  - the scheduler, the hook repository and the web front-end are not     *)
(*    part of the sources at hand; they are modelled from the written      *)
(*    specification (sections 4.4 and 4.6) as monitors with atomic         *)
(*    operations.                                                          *)
(*                                                                         *)
(* Three specifications share the worker steps:                            *)
(*    SpecThread     one owner calling process / mark_idle / stop on a     *)
(*                   Thread in any order the Rust ownership rules allow;   *)
(*    SpecProcessor  a client of the processor facade calling queue, lock  *)
(*                   and unlock in any order, with the worker pool;        *)
(*    Spec           the whole system: hook requests through the web       *)
(*                   front-end, scheduler, worker pool and reload.         *)
(***************************************************************************)
EXTENDS Integers, Sequences, FiniteSets, TLC

\* ------------------------------------------------------------------ bounds
\* Number of jobs ever created in a run (State::next_id is unbounded).
MaxJobs == 2

\* The worker pool of the runs: two Threads (max_threads = 2).
Threads == {1, 2}
JobIds == 1..MaxJobs

\* The hook set the runs start with: "a" is a serial hook (the default,
\* parallel=false), "b" is declared parallel.
HookNames == {"a", "b"}
ParallelHooks == {"b"}
\* Option::None of currently_running.
None == "none"

\* A ScheduledJob: its id and the hook it runs.  NoJob is the empty inbox
\* (Option::None of `communication`) and the absent local `job`.
Job(i, h) == [id |-> i, hook |-> h]
NoJob == [id |-> 0, hook |-> None]

VARIABLES
    \* ---- Thread (thread.rs:35-43), owner side and shared cells
    currently_running,  \* Thread.currently_running: Option<ScriptId>
    should_stop,        \* Thread.should_stop: Arc<AtomicBool>
    communication,      \* Thread.communication: Arc<Mutex<Option<ScheduledJob>>>
    token,              \* the park token of the worker's std::thread handle
    stop_pc,            \* where the owner is inside Thread::stop(self)
    \* ---- the worker thread running Thread::inner_thread
    pc,                 \* position in the loop
    job,                \* the local `job` taken from the inbox
    result,             \* the local `result` of job.execute
    \* ---- what the worker told the scheduler (SchedulerInternalApi)
    completed,          \* job_ended notifications not yet handled
    outputs,            \* ids of the jobs whose Output is recorded and whose
                        \* completion is not handled yet
    \* ---- the front-end, the hook repository and the scheduler
    web_locked,         \* WebApp lock
    hooks,              \* names of the hooks of the current snapshot
    queues,             \* hook -> FIFO of waiting jobs
    locked,             \* scheduler lock
    last_served,        \* round-robin pointer of the dispatcher
    reload_pc,          \* position inside RunningFisher::reload
    reload_result,      \* the local `result` of hooks_blueprint.reload(); once
                        \* reload returned, the value it returned
    \* ---- bookkeeping of the run
    next_id,            \* next job id handed out
    last_call,          \* the last Thread::process call and what it returned
    executed,           \* job id -> how many times job.execute ran for it
    enqueued,           \* hook -> job ids in the order they were enqueued
    delivered,          \* hook -> job ids in the order process accepted them
    dropped,            \* ids of the jobs removed by cleanup
    \* ---- RunningFisher::stop and the processor's stop
    stop_at,            \* position inside RunningFisher::stop
    web_state,          \* the web server: "listening" or "stopped"
    processor_state,    \* the processor: "running", "stopping" or "stopped"
    queue_result,       \* what the last ProcessorApi::queue call returned
    \* ---- the host program (main.rs)
    main_pc,            \* position inside main
    exit_code,          \* exit status of the process, "none" while it runs
    signal,             \* the signal waiting in exit_signal, or "none"
    \* ---- Fisher::start
    start_pc,           \* position inside Fisher::start
    start_result,       \* what Fisher::start returned, "none" before
    \* ---- providers (providers/core.rs)
    registry,           \* Providers.providers: name -> provider
    adds,               \* the Providers::add calls made so far, in order
    looked,             \* the last Providers::by_name call and its result
    hook_provider,      \* what the last HookProvider::new call returned
    answers,            \* the last answers asked of the built HookProvider
    \* ---- status events
    subscriptions,      \* hook name -> its Fisher-Status subscription
    status_jobs         \* job id -> the job enqueued under it, and its fate

threadVars == <<currently_running, should_stop, communication, token, stop_pc>>
workerVars == <<pc, job, result>>
apiVars == <<completed, outputs>>
sysVars == <<web_locked, hooks, queues, locked, last_served, reload_pc,
             reload_result>>
histVars == <<next_id, last_call, executed, enqueued, delivered, dropped>>
stopVars == <<stop_at, web_state, processor_state, queue_result>>
mainVars == <<main_pc, exit_code, signal>>
providerVars == <<registry, adds, looked, hook_provider, answers>>
startVars == <<start_pc, start_result>>
statusVars == <<subscriptions, status_jobs>>
appVars == <<stopVars, mainVars, providerVars, startVars, statusVars>>
vars == <<threadVars, workerVars, apiVars, sysVars, histVars, appVars>>

NoCall == [thread |-> 0, job |-> NoJob,
           result |-> [kind |-> "none", job |-> NoJob]]

\* ---- providers (providers/core.rs)
\* names a provider is registered and looked up under
ProviderNames == {"Sample", "Other"}
\* the Provider values at hand: the provider of the tests, and one whose
\* functions read the config they are given
ProviderValues == {"sample", "keyed"}
\* the config strings of a hook's header
Configs == {"yes", "FAIL", "testing"}
\* a Request as far as providers look at it: params "request_type", "secret"
Requests == [request_type : {"none", "ping", "other"},
             secret : {"none", "testing", "wrong"}]
NoProvider == "none"
NoLookup == [name |-> "none", kind |-> "none", value |-> "none"]
NoBuilt == [provider |-> "none", config |-> "none"]
NoHookProvider == [provider |-> "none", config |-> "none",
                   returned |-> [kind |-> "none", error |-> "none",
                                 built |-> NoBuilt]]
NoAnswers == [by |-> NoBuilt, request |-> "none", request_type |-> "none",
              validate |-> "none", env |-> "none"]

\* ---- status events: hooks, event kinds, subscriptions
MaxStatusJobs == 3
StatusJobIds == 1..MaxStatusJobs
\* the hooks of sample_hooks that take part in status events, and a second
\* status hook
StatusHookNames == {"trigger-status", "status-example", "status-other"}
Events == {"job_completed", "job_failed"}
NoSubscription == [events |-> {}, hooks |-> {}]
Subscription(events, observed) == [events |-> events, hooks |-> observed]
NoStatusJob == [hook |-> "none", status |-> FALSE, parent |-> 0,
                event |-> "none", state |-> "none"]
\* `## Fisher-Status: {"events": [..], "hooks": [..]}` headers of the hooks:
\* the one of sample_hooks; one event kind only; a status hook that observes
\* itself; two status hooks that observe each other.
SampleSubscriptions ==
    [h \in StatusHookNames |->
        IF h = "status-example" THEN Subscription(Events, {"trigger-status"})
                                ELSE NoSubscription]

SubscriptionConfigs ==
    LET none == [h \in StatusHookNames |-> NoSubscription]
    IN { [none EXCEPT !["status-example"] =
              Subscription(Events, {"trigger-status"})],
         [none EXCEPT !["status-example"] =
              Subscription({"job_failed"}, {"trigger-status"})],
         [none EXCEPT !["status-example"] =
              Subscription(Events, {"trigger-status", "status-example"})],
         [none EXCEPT !["status-example"] =
              Subscription(Events, {"trigger-status", "status-other"}),
                      !["status-other"] =
              Subscription(Events, {"trigger-status", "status-example"})] }

\* The state once the processor built its pool: every Thread in `pool` was
\* made by Thread::new, idle, with an empty inbox and its worker thread at the
\* top of the loop; a Thread outside the pool does not exist ("absent").
InitPool(pool) ==
    /\ currently_running = [t \in Threads |-> None]
    /\ should_stop = [t \in Threads |-> FALSE]
    /\ communication = [t \in Threads |-> NoJob]
    /\ token = [t \in Threads |-> FALSE]
    /\ stop_pc = [t \in Threads |-> IF t \in pool THEN "none" ELSE "absent"]
    /\ pc = [t \in Threads |-> IF t \in pool THEN "check_stop" ELSE "absent"]
    /\ job = [t \in Threads |-> NoJob]
    /\ result = [t \in Threads |-> "none"]
    /\ completed = {}
    /\ outputs = {}
    /\ web_locked = FALSE
    /\ hooks = HookNames
    /\ queues = [h \in HookNames |-> <<>>]
    /\ locked = FALSE
    /\ last_served = 0
    /\ reload_pc = "idle"
    /\ reload_result = "none"
    /\ next_id = 1
    /\ last_call = NoCall
    /\ executed = [i \in JobIds |-> 0]
    /\ enqueued = [h \in HookNames |-> <<>>]
    /\ delivered = [h \in HookNames |-> <<>>]
    /\ dropped = {}
    /\ queue_result = "none"
    /\ signal = "none"
    /\ registry = [n \in ProviderNames |-> NoProvider]
    /\ adds = <<>>
    /\ looked = NoLookup
    /\ hook_provider = NoHookProvider
    /\ answers = NoAnswers
    /\ status_jobs = [i \in StatusJobIds |-> NoStatusJob]

\* A started application: the pool has both Threads, the web server listens,
\* RunningFisher::stop was not called; no host program is modelled around it.
Init ==
    /\ InitPool(Threads)
    /\ stop_at = "running"
    /\ web_state = "listening"
    /\ processor_state = "running"
    /\ main_pc = "none"
    /\ exit_code = "none"
    /\ subscriptions = SampleSubscriptions
    /\ start_pc = "returned"
    /\ start_result = "ok"

\* ------------------------------------------------------------ Thread (owner)

\* (mutant) the accessor forgets what the Thread runs
CurrentlyRunningForgets(cr, t) == None

\* Thread::currently_running, the accessor the scheduler counts with
CurrentlyRunning(cr, t) == cr[t]

\* (mutant) busy() that never reports a running job
BusyNever(cr, t) == FALSE

\* Thread::busy: self.currently_running.is_some()
Busy(cr, t) == cr[t] # None

\* (mutant) process without the busy() check
ProcessAcceptsBusy(cr, t) == ~should_stop[t]

\* The two early returns of Thread::process: the job is taken only by a
\* Thread that is neither stopping nor busy.  (The third Rejected, a poisoned
\* inbox mutex, needs a panic while the mutex is held; the only code that
\* holds it is `take()` and the assignment in process, neither panics.)
ProcessAccepts(cr, t) == ~should_stop[t] /\ ~Busy(cr, t)

\* (mutant) process without self.handle.thread().unpark()
ProcessUpdateNoUnpark(s, t, j) ==
    IF ProcessAccepts(s.cr, t)
    THEN [s EXCEPT !.cr[t] = j.hook,
                   !.comm[t] = j,
                   !.dl[j.hook] = Append(@, j.id)]
    ELSE s

\* Thread::process on the owner's view s = [cr, comm, tok, dl]: the new view.
\* dl is the record of the accepted jobs, per hook, in order.
ProcessUpdate(s, t, j) ==
    IF ProcessAccepts(s.cr, t)
    THEN [s EXCEPT !.cr[t] = j.hook,
                   !.comm[t] = j,
                   !.tok[t] = TRUE,
                   !.dl[j.hook] = Append(@, j.id)]
    ELSE s

\* What Thread::process returns: Executing, or Rejected(job) giving the job
\* back to the caller.
ProcessResult(cr, t, j) ==
    IF ProcessAccepts(cr, t) THEN [kind |-> "Executing", job |-> NoJob]
                             ELSE [kind |-> "Rejected", job |-> j]

OwnerView == [cr |-> currently_running, comm |-> communication,
              tok |-> token, dl |-> delivered]

\* (mutant) mark_idle that leaves currently_running as it is
MarkIdleNever(cr, t) == cr

\* Thread::mark_idle
MarkIdle(cr, t) == [cr EXCEPT ![t] = None]

\* Thread::stop, first statement: should_stop.store(true)
StopStore(t) ==
    /\ stop_pc[t] = "none"
    /\ should_stop' = [should_stop EXCEPT ![t] = TRUE]
    /\ stop_pc' = [stop_pc EXCEPT ![t] = "stored"]
    /\ UNCHANGED <<currently_running, communication, token, workerVars,
                   apiVars, sysVars, histVars>>
    /\ UNCHANGED appVars

\* (mutant) Thread::stop without handle.thread().unpark()
StopUnparkMissing(t) ==
    /\ stop_pc[t] = "stored"
    /\ stop_pc' = [stop_pc EXCEPT ![t] = "unparked"]
    /\ UNCHANGED <<currently_running, should_stop, communication, token,
                   workerVars, apiVars, sysVars, histVars, appVars>>

\* Thread::stop, second statement: handle.thread().unpark()
StopUnpark(t) ==
    /\ stop_pc[t] = "stored"
    /\ token' = [token EXCEPT ![t] = TRUE]
    /\ stop_pc' = [stop_pc EXCEPT ![t] = "unparked"]
    /\ UNCHANGED <<currently_running, should_stop, communication, workerVars,
                   apiVars, sysVars, histVars>>
    /\ UNCHANGED appVars

\* Thread::stop, third statement: handle.join() returns once the worker exited
StopJoin(t) ==
    /\ stop_pc[t] = "unparked"
    /\ pc[t] = "exited"
    /\ stop_pc' = [stop_pc EXCEPT ![t] = "joined"]
    /\ UNCHANGED <<currently_running, should_stop, communication, token,
                   workerVars, apiVars, sysVars, histVars>>
    /\ UNCHANGED appVars

\* ------------------------------------------------- Thread::inner_thread loop

\* `if should_stop.load(SeqCst) { break; }`
WorkerCheckStop(t) ==
    /\ pc[t] = "check_stop"
    /\ pc' = [pc EXCEPT ![t] = IF should_stop[t] THEN "exited" ELSE "take"]
    /\ UNCHANGED <<threadVars, job, result, apiVars, sysVars, histVars>>
    /\ UNCHANGED appVars

\* `if let Some(job) = comm.lock()?.take()`: the inbox is emptied under its
\* mutex; with nothing in it the worker goes on to park.
WorkerTake(t) ==
    /\ pc[t] = "take"
    /\ IF communication[t] # NoJob
       THEN /\ job' = [job EXCEPT ![t] = communication[t]]
            /\ communication' = [communication EXCEPT ![t] = NoJob]
            /\ pc' = [pc EXCEPT ![t] = "execute"]
       ELSE /\ pc' = [pc EXCEPT ![t] = "park"]
            /\ UNCHANGED <<job, communication>>
    /\ UNCHANGED <<currently_running, should_stop, token, stop_pc, result,
                   apiVars, sysVars, histVars>>
    /\ UNCHANGED appVars

\* What the `match result` arms send to the scheduler for job id i:
\* Ok(output) => api.record_output(output), Err(error) => error.pretty_print()
Reported(r, i) == IF r = "ok" THEN {i} ELSE {}

\* (mutant) a worker that sends job_ended as soon as execute returned, before
\* the `match result` reports the Output, and again after it
WorkerExecuteEndsEarly(t) ==
    /\ pc[t] = "execute"
    /\ \E r \in {"ok", "err"} :
        /\ result' = [result EXCEPT ![t] = r]
        /\ outputs' = outputs \cup Reported(r, job[t].id)
    /\ completed' = completed \cup {<<t, job[t].id>>}
    /\ executed' = [executed EXCEPT ![job[t].id] = @ + 1]
    /\ pc' = [pc EXCEPT ![t] = "job_ended"]
    /\ UNCHANGED <<threadVars, job, sysVars, next_id, last_call,
                   enqueued, delivered, dropped>>
    /\ UNCHANGED appVars

\* `let result = job.execute(&ctx)` returns, Ok(output) or Err, and the
\* `match result` that follows reports it.  (The worker touches nothing
\* shared between the two, so they are one step.)
WorkerExecute(t) ==
    /\ pc[t] = "execute"
    /\ \E r \in {"ok", "err"} :
        /\ result' = [result EXCEPT ![t] = r]
        /\ outputs' = outputs \cup Reported(r, job[t].id)
    /\ executed' = [executed EXCEPT ![job[t].id] = @ + 1]
    /\ pc' = [pc EXCEPT ![t] = "job_ended"]
    /\ UNCHANGED <<threadVars, job, completed, sysVars, next_id, last_call,
                   enqueued, delivered, dropped>>
    /\ UNCHANGED appVars

\* (mutant) a worker that returns from its loop after a failed job, without
\* sending job_ended
WorkerJobEndedDies(t) ==
    /\ pc[t] = "job_ended"
    /\ completed' = IF result[t] = "err" THEN completed
                    ELSE completed \cup {<<t, job[t].id>>}
    /\ job' = [job EXCEPT ![t] = NoJob]
    /\ result' = [result EXCEPT ![t] = "none"]
    /\ pc' = [pc EXCEPT ![t] = IF result[t] = "err" THEN "exited"
                                ELSE "check_stop"]
    /\ UNCHANGED <<threadVars, outputs, sysVars, histVars, appVars>>

\* `api.job_ended(thread_id, &job)?; continue;`
WorkerJobEnded(t) ==
    /\ pc[t] = "job_ended"
    /\ completed' = completed \cup {<<t, job[t].id>>}
    /\ job' = [job EXCEPT ![t] = NoJob]
    /\ result' = [result EXCEPT ![t] = "none"]
    /\ pc' = [pc EXCEPT ![t] = "check_stop"]
    /\ UNCHANGED <<threadVars, outputs, sysVars, histVars>>
    /\ UNCHANGED appVars

\* `thread::park()` returning because the token was set by an unpark
WorkerUnparked(t) ==
    /\ pc[t] = "park"
    /\ token[t]
    /\ token' = [token EXCEPT ![t] = FALSE]
    /\ pc' = [pc EXCEPT ![t] = "check_stop"]
    /\ UNCHANGED <<currently_running, should_stop, communication, stop_pc,
                   job, result, apiVars, sysVars, histVars>>
    /\ UNCHANGED appVars

\* `thread::park()` returning spuriously, as std allows
WorkerSpuriousWake(t) ==
    /\ pc[t] = "park"
    /\ ~token[t]
    /\ pc' = [pc EXCEPT ![t] = "check_stop"]
    /\ UNCHANGED <<threadVars, job, result, apiVars, sysVars, histVars>>
    /\ UNCHANGED appVars

Worker(t) ==
    \/ WorkerCheckStop(t)
    \/ WorkerTake(t)
    \/ WorkerExecute(t)
    \/ WorkerJobEnded(t)
    \/ WorkerUnparked(t)
    \/ WorkerSpuriousWake(t)

\* ------------------------------------------- SpecThread: any owner of Threads

\* The owner builds a job and hands it to Thread t with process(); &mut self
\* and stop(self) make process, mark_idle and stop calls on one Thread
\* sequential, and no call follows stop.
CallProcess(t, h) ==
    /\ stop_pc[t] = "none"
    /\ next_id <= MaxJobs
    /\ LET j == Job(next_id, h)
           s == ProcessUpdate(OwnerView, t, j)
       IN /\ currently_running' = s.cr
          /\ communication' = s.comm
          /\ token' = s.tok
          /\ delivered' = s.dl
          /\ last_call' = [thread |-> t, job |-> j,
                           result |-> ProcessResult(currently_running, t, j)]
    /\ next_id' = next_id + 1
    /\ UNCHANGED <<should_stop, stop_pc, workerVars, apiVars, sysVars,
                   executed, enqueued, dropped>>
    /\ UNCHANGED appVars

\* The owner receives a job_ended notification of Thread t and marks it idle.
CallMarkIdle(t) ==
    /\ stop_pc[t] = "none"
    /\ \E m \in completed :
        /\ m[1] = t
        /\ completed' = completed \ {m}
        /\ outputs' = outputs \ {m[2]}
    /\ currently_running' = MarkIdle(currently_running, t)
    /\ UNCHANGED <<should_stop, communication, token, stop_pc, workerVars,
                   sysVars, histVars>>
    /\ UNCHANGED appVars

\* Two Threads share no cell, so the owner's calls are explored on one.
Owned == {1}

ThreadNext ==
    \E t \in Owned :
        \/ Worker(t)
        \/ \E h \in HookNames : CallProcess(t, h)
        \/ CallMarkIdle(t)
        \/ StopStore(t)
        \/ StopUnpark(t)
        \/ StopJoin(t)

SpecThread == Init /\ [][ThreadNext]_vars

\* SpecThread with the scheduling the operating system gives: a worker thread
\* that can take its next step takes it, a started script ends, park returns
\* once the token is set, and a stop() that stored the flag goes on to unpark
\* and to join.  Nothing forces a spurious wake-up, a process or mark_idle
\* call, or a call of stop.
ThreadFairness ==
    \A t \in Owned :
        /\ WF_vars(WorkerCheckStop(t))
        /\ WF_vars(WorkerTake(t))
        /\ WF_vars(WorkerExecute(t))
        /\ WF_vars(WorkerJobEnded(t))
        /\ WF_vars(WorkerUnparked(t))
        /\ WF_vars(StopUnpark(t))
        /\ WF_vars(StopJoin(t))

FairSpecThread == SpecThread /\ ThreadFairness

\* --------------------------------------------------------------- scheduler

Min(S) == CHOOSE x \in S : \A y \in S : x <= y

\* The order in which the dispatcher scans the hooks' queues.
HookSeq == <<"a", "b">>
NumHooks == Len(HookSeq)

\* running_per_hook[h]: the workers whose currently_running is h.
RunningPerHook(cr, h) ==
    Cardinality({t \in Threads : CurrentlyRunning(cr, t) = h})

\* A hook the dispatcher may serve: a job waits for it, and it is parallel
\* or has nothing running.
Eligible(s, h) ==
    /\ s.q[h] # <<>>
    /\ h \in ParallelHooks \/ RunningPerHook(s.cr, h) = 0

\* Round-robin: the k-th queue scanned after `last` was served.
Scan(last, k) == ((last + k - 1) % NumHooks) + 1

\* Index of the next hook to serve, 0 when there is none.
NextHook(s) ==
    LET ks == {k \in 1..NumHooks : Eligible(s, HookSeq[Scan(s.last, k)])}
    IN IF ks = {} THEN 0 ELSE Scan(s.last, Min(ks))

\* (mutant) the dispatcher serves the newest job of a queue first
PopNewest(q) == [job |-> q[Len(q)], rest |-> SubSeq(q, 1, Len(q) - 1)]

\* Popping a queue: the job at its head, and what stays queued.
Pop(q) == [job |-> Head(q), rest |-> Tail(q)]

\* (mutant) the dispatcher ignores the lock
NeverSuspended(lk) == FALSE

\* `while not locked`: dispatching is suspended by the lock.
Suspended(lk) == lk

\* Workers the dispatcher may submit to: idle ones still in the pool.
IdleWorkers(s) == {t \in Threads : ~Busy(s.cr, t) /\ stop_pc[t] = "none"}

\* The dispatch loop on the scheduler's view
\* s = [cr, comm, tok, dl, q, last], with lk the scheduler lock.
RECURSIVE Dispatch(_, _)
Dispatch(s, lk) ==
    IF Suspended(lk) \/ NextHook(s) = 0 \/ IdleWorkers(s) = {}
    THEN s
    ELSE LET i == NextHook(s)
             h == HookSeq[i]
             t == Min(IdleWorkers(s))
             p == Pop(s.q[h])
             j == Job(p.job, h)
         IN IF ProcessAccepts(s.cr, t)
            THEN Dispatch(ProcessUpdate(
                     [s EXCEPT !.q[h] = p.rest, !.last = i], t, j), lk)
            ELSE s

SchedulerView == [cr |-> currently_running, comm |-> communication,
                  tok |-> token, dl |-> delivered,
                  q |-> queues, last |-> last_served]

\* The scheduler's state after one of its operations left the view s.
Install(s) ==
    /\ currently_running' = s.cr
    /\ communication' = s.comm
    /\ token' = s.tok
    /\ delivered' = s.dl
    /\ queues' = s.q
    /\ last_served' = s.last

\* enqueue(job): append to the hook's queue, then dispatch.
Enqueue(h) ==
    /\ next_id <= MaxJobs
    /\ Install(Dispatch([SchedulerView EXCEPT !.q[h] = Append(@, next_id)],
                        locked))
    /\ enqueued' = [enqueued EXCEPT ![h] = Append(@, next_id)]
    /\ next_id' = next_id + 1

\* Completion handling: the scheduler receives job_ended of worker t, marks
\* the worker idle, consumes the job's Output and dispatches.
SchedulerJobEnded(t) ==
    /\ \E m \in completed :
        /\ m[1] = t
        /\ completed' = completed \ {m}
        /\ outputs' = outputs \ {m[2]}
    /\ Install(Dispatch([SchedulerView EXCEPT
                            !.cr = MarkIdle(currently_running, t)], locked))
    /\ UNCHANGED <<should_stop, stop_pc, workerVars, web_locked, hooks, locked,
                   reload_pc, reload_result, next_id, last_call, executed,
                   enqueued, dropped>>
    /\ UNCHANGED appVars

\* lock(): suspend dispatching.
SchedulerLock ==
    /\ locked' = TRUE
    /\ UNCHANGED <<threadVars, queues, last_served, delivered>>

\* unlock(): resume dispatching; what waited is dispatched.
SchedulerUnlock ==
    /\ locked' = FALSE
    /\ Install(Dispatch(SchedulerView, FALSE))

\* cleanup(): drop every queued job whose hook is not in the snapshot.
CleanupQueues(q, snapshot) ==
    [h \in HookNames |-> IF h \in snapshot THEN q[h] ELSE <<>>]

CleanupDropped(q, snapshot) ==
    UNION {{q[h][k] : k \in 1..Len(q[h])} : h \in HookNames \ snapshot}

SchedulerCleanup ==
    /\ queues' = CleanupQueues(queues, hooks)
    /\ dropped' = dropped \cup CleanupDropped(queues, hooks)

\* --------------------------------------------------------- web front-end

\* POST /hook/<h>: served when the front-end is not locked and the hook is
\* in the current snapshot; the job is enqueued.
Request(h) ==
    /\ ~web_locked
    /\ h \in hooks
    /\ Enqueue(h)
    /\ UNCHANGED <<should_stop, stop_pc, workerVars, apiVars, web_locked,
                   hooks, locked, reload_pc, reload_result, last_call,
                   executed, dropped>>
    /\ UNCHANGED appVars

\* ------------------------------------------------ RunningFisher::reload

\* (mutant) the front-end is unlocked before the scheduler
ReloadAfterWebUnlockFirst(stmt, r) ==
    CASE stmt = "web_lock" -> "processor_lock"
      [] stmt = "processor_lock" -> "hooks_reload"
      [] stmt = "hooks_reload" -> IF r = "ok" THEN "cleanup" ELSE "web_unlock"
      [] stmt = "cleanup" -> "web_unlock"
      [] stmt = "web_unlock" -> "processor_unlock"
      [] stmt = "processor_unlock" -> "idle"

\* (mutant) the front-end is unlocked right after the hooks were collected
ReloadAfterWebUnlockEarly(stmt, r) ==
    CASE stmt = "web_lock" -> "processor_lock"
      [] stmt = "processor_lock" -> "hooks_reload"
      [] stmt = "hooks_reload" -> "web_unlock"
      [] stmt = "web_unlock" ->
            IF r = "ok" THEN "cleanup" ELSE "processor_unlock"
      [] stmt = "cleanup" -> "processor_unlock"
      [] stmt = "processor_unlock" -> "idle"

\* (mutant) cleanup is called whatever hooks_blueprint.reload() returned
ReloadAfterCleanupAlways(stmt, r) ==
    CASE stmt = "web_lock" -> "processor_lock"
      [] stmt = "processor_lock" -> "hooks_reload"
      [] stmt = "hooks_reload" -> "cleanup"
      [] stmt = "cleanup" -> "processor_unlock"
      [] stmt = "processor_unlock" -> "web_unlock"
      [] stmt = "web_unlock" -> "idle"

\* (mutant) cleanup is never called
ReloadAfterNoCleanup(stmt, r) ==
    CASE stmt = "web_lock" -> "processor_lock"
      [] stmt = "processor_lock" -> "hooks_reload"
      [] stmt = "hooks_reload" -> "processor_unlock"
      [] stmt = "cleanup" -> "processor_unlock"
      [] stmt = "processor_unlock" -> "web_unlock"
      [] stmt = "web_unlock" -> "idle"

\* The statement reload executes after statement `stmt`, `r` being the local
\* `result` ("none" before hooks_blueprint.reload() ran).
ReloadAfter(stmt, r) ==
    CASE stmt = "web_lock" -> "processor_lock"
      [] stmt = "processor_lock" -> "hooks_reload"
      [] stmt = "hooks_reload" ->
            IF r = "ok" THEN "cleanup" ELSE "processor_unlock"
      [] stmt = "cleanup" -> "processor_unlock"
      [] stmt = "processor_unlock" -> "web_unlock"
      [] stmt = "web_unlock" -> "idle"

\* The statement reload starts with.
ReloadFirst == "web_lock"

AtStatement(stmt) ==
    \/ reload_pc = stmt
    \/ reload_pc = "idle" /\ stmt = ReloadFirst

\* self.web_api.lock()
ReloadWebLock ==
    /\ AtStatement("web_lock")
    /\ web_locked' = TRUE
    /\ reload_pc' = ReloadAfter("web_lock", "none")
    /\ reload_result' = "none"
    /\ UNCHANGED <<threadVars, workerVars, apiVars, hooks, queues, locked,
                   last_served, histVars>>
    /\ UNCHANGED appVars

\* processor.lock()?
ReloadProcessorLock ==
    /\ AtStatement("processor_lock")
    /\ SchedulerLock
    /\ reload_pc' = ReloadAfter("processor_lock", reload_result)
    /\ reload_result' = IF reload_pc = "idle" THEN "none" ELSE reload_result
    /\ UNCHANGED <<workerVars, apiVars, web_locked, hooks, next_id, last_call,
                   executed, enqueued, dropped>>
    /\ UNCHANGED appVars

\* let result = self.hooks_blueprint.reload(): the hooks are collected again
\* and, when that succeeds, the snapshot is replaced.
ReloadHooks ==
    /\ AtStatement("hooks_reload")
    /\ \/ \E snapshot \in SUBSET HookNames :
            /\ hooks' = snapshot
            /\ reload_result' = "ok"
       \/ /\ reload_result' = "err"
          /\ UNCHANGED hooks
    /\ reload_pc' = ReloadAfter("hooks_reload", reload_result')
    /\ UNCHANGED <<threadVars, workerVars, apiVars, web_locked, queues, locked,
                   last_served, histVars>>
    /\ UNCHANGED appVars

\* processor.cleanup()?
ReloadCleanup ==
    /\ AtStatement("cleanup")
    /\ SchedulerCleanup
    /\ reload_pc' = ReloadAfter("cleanup", reload_result)
    /\ UNCHANGED <<threadVars, workerVars, apiVars, web_locked, hooks, locked,
                   last_served, reload_result, next_id, last_call, executed,
                   enqueued, delivered>>
    /\ UNCHANGED appVars

\* processor.unlock()?
ReloadProcessorUnlock ==
    /\ AtStatement("processor_unlock")
    /\ SchedulerUnlock
    /\ reload_pc' = ReloadAfter("processor_unlock", reload_result)
    /\ UNCHANGED <<should_stop, stop_pc, workerVars, apiVars, web_locked,
                   hooks, reload_result, next_id, last_call, executed,
                   enqueued, dropped>>
    /\ UNCHANGED appVars

\* self.web_api.unlock(); result
ReloadWebUnlock ==
    /\ AtStatement("web_unlock")
    /\ web_locked' = FALSE
    /\ reload_pc' = ReloadAfter("web_unlock", reload_result)
    /\ UNCHANGED <<threadVars, workerVars, apiVars, hooks, queues, locked,
                   last_served, reload_result, histVars>>
    /\ UNCHANGED appVars

Reload ==
    \/ ReloadWebLock
    \/ ReloadProcessorLock
    \/ ReloadHooks
    \/ ReloadCleanup
    \/ ReloadProcessorUnlock
    \/ ReloadWebUnlock

\* ------------------------------------------------------- the whole system

Next ==
    \/ \E t \in Threads : Worker(t)
    \/ \E t \in Threads : SchedulerJobEnded(t)
    \/ \E h \in HookNames : Request(h)
    \/ Reload

Spec == Init /\ [][Next]_vars

\* ----------------------------------- reload with failing processor calls

\* `self.processor.lock()?`, `self.processor.cleanup()?` or
\* `self.processor.unlock()?` returns Err: the `?` makes reload return that
\* error at once, and the statements after it are not run.
ReloadProcessorCallFails(stmt) ==
    /\ stmt \in {"processor_lock", "cleanup", "processor_unlock"}
    /\ reload_pc = stmt
    /\ reload_pc' = "idle"
    /\ reload_result' = "processor_err"
    /\ UNCHANGED <<threadVars, workerVars, apiVars, web_locked, hooks, queues,
                   locked, last_served, histVars>>
    /\ UNCHANGED appVars

\* The whole system, with processor calls of reload that may fail.
ReloadErrNext ==
    \/ Next
    \/ \E stmt \in {"processor_lock", "cleanup", "processor_unlock"} :
            ReloadProcessorCallFails(stmt)

SpecReloadErr == Init /\ [][ReloadErrNext]_vars

\* ------------------------------------- SpecProcessor: a client of the facade

\* ProcessorApi::queue called for a hook of the snapshot
ApiQueue(h) ==
    /\ h \in hooks
    /\ Enqueue(h)
    /\ UNCHANGED <<should_stop, stop_pc, workerVars, apiVars, web_locked,
                   hooks, locked, reload_pc, reload_result, last_call,
                   executed, dropped>>
    /\ UNCHANGED appVars

\* ProcessorApi::lock
ApiLock ==
    /\ SchedulerLock
    /\ UNCHANGED <<workerVars, apiVars, web_locked, hooks, reload_pc,
                   reload_result, next_id, last_call, executed, enqueued,
                   dropped>>
    /\ UNCHANGED appVars

\* ProcessorApi::unlock
ApiUnlock ==
    /\ SchedulerUnlock
    /\ UNCHANGED <<should_stop, stop_pc, workerVars, apiVars, web_locked,
                   hooks, reload_pc, reload_result, next_id, last_call,
                   executed, enqueued, dropped>>
    /\ UNCHANGED appVars

ProcessorNext ==
    \/ \E t \in Threads : Worker(t)
    \/ \E t \in Threads : SchedulerJobEnded(t)
    \/ \E h \in HookNames : ApiQueue(h)
    \/ ApiLock
    \/ ApiUnlock

SpecProcessor == Init /\ [][ProcessorNext]_vars

\* ------------------------------------------- a pool of max_threads Workers

\* `max_threads: 1` of Fisher::new, the pool size unless max_threads() is set
DefaultMaxThreads == 1

\* (mutant) a pool with one Worker more than max_threads
PoolOfOneMore(max_threads) == {t \in Threads : t <= max_threads + 1}

\* Processor::new(self.max_threads, ...): the pool is made of max_threads
\* Threads, ids 1..max_threads.
PoolOf(max_threads) == {t \in Threads : t <= max_threads}

\* The application started by a Fisher left at its default max_threads.
InitSingle ==
    /\ InitPool(PoolOf(DefaultMaxThreads))
    /\ stop_at = "running"
    /\ web_state = "listening"
    /\ processor_state = "running"
    /\ main_pc = "none"
    /\ exit_code = "none"
    /\ subscriptions = SampleSubscriptions
    /\ start_pc = "returned"
    /\ start_result = "ok"

SpecSingle == InitSingle /\ [][Next]_vars

\* --------------------------------------------------- RunningFisher::stop

\* (mutant) the web server is stopped before the processor
StopAfterWebStopFirst(stmt) ==
    CASE stmt = "web_lock" -> "web_stop"
      [] stmt = "web_stop" -> "processor_stop"
      [] stmt = "processor_stop" -> "stopped"

\* The statement RunningFisher::stop runs after statement stmt:
\*   self.web_api.lock(); self.processor.stop()?; self.web_api.stop(); Ok(())
StopAfter(stmt) ==
    CASE stmt = "web_lock" -> "processor_stop"
      [] stmt = "processor_stop" -> "web_stop"
      [] stmt = "web_stop" -> "stopped"

StopFirst == "web_lock"

\* stop is at statement stmt.  stop(self) and reload(&mut self) are calls of
\* the one owner of the RunningFisher: stop starts only between reloads,
\* and consumes the RunningFisher.
StopAt(stmt) ==
    \/ stop_at = stmt
    \/ stop_at = "running" /\ reload_pc = "idle" /\ stmt = StopFirst

\* self.web_api.lock()
StopWebLock ==
    /\ StopAt("web_lock")
    /\ web_locked' = TRUE
    /\ stop_at' = StopAfter("web_lock")
    /\ UNCHANGED <<threadVars, workerVars, apiVars, hooks, queues, locked,
                   last_served, reload_pc, reload_result, histVars, web_state,
                   processor_state, queue_result, mainVars, providerVars,
                   startVars, statusVars>>

\* self.processor.stop() is called: the scheduler takes the Stop command,
\* enters Stopping (dispatch is a no-op from now on) and starts draining.
StopProcessorCall ==
    /\ StopAt("processor_stop")
    /\ processor_state = "running"
    /\ processor_state' = "stopping"
    /\ locked' = TRUE
    /\ UNCHANGED <<threadVars, workerVars, apiVars, web_locked, hooks, queues,
                   last_served, reload_pc, reload_result, histVars, stop_at,
                   web_state, queue_result, mainVars, providerVars, startVars,
                   statusVars>>

\* The scheduler has drained: no worker is busy, every completion is handled.
\* It goes on to stop the Workers.
ProcessorDrained ==
    /\ processor_state = "stopping"
    /\ \A t \in Threads : ~Busy(currently_running, t)
    /\ processor_state' = "stopping_workers"
    /\ UNCHANGED <<threadVars, workerVars, apiVars, sysVars, histVars, stop_at,
                   web_state, queue_result, mainVars, providerVars, startVars,
                   statusVars>>

\* The scheduler stops its Workers one after the other with Thread::stop,
\* which returns when the worker thread has been joined.
ProcessorStopThread(t) ==
    /\ processor_state = "stopping_workers"
    /\ \A u \in Threads : u < t => stop_pc[u] = "joined"
    /\ \/ StopStore(t)
       \/ StopUnpark(t)
       \/ StopJoin(t)

\* Every Worker is stopped: the scheduler ends.
ProcessorStopped ==
    /\ processor_state = "stopping_workers"
    /\ \A t \in Threads : stop_pc[t] = "joined"
    /\ processor_state' = "stopped"
    /\ UNCHANGED <<threadVars, workerVars, apiVars, sysVars, histVars, stop_at,
                   web_state, queue_result, mainVars, providerVars, startVars,
                   statusVars>>

\* self.processor.stop() returns
StopProcessorReturn ==
    /\ StopAt("processor_stop")
    /\ processor_state = "stopped"
    /\ stop_at' = StopAfter("processor_stop")
    /\ UNCHANGED <<threadVars, workerVars, apiVars, sysVars, histVars,
                   web_state, processor_state, queue_result, mainVars,
                   providerVars, startVars, statusVars>>

\* self.web_api.stop()
StopWebStop ==
    /\ StopAt("web_stop")
    /\ web_state' = "stopped"
    /\ stop_at' = StopAfter("web_stop")
    /\ UNCHANGED <<threadVars, workerVars, apiVars, sysVars, histVars,
                   processor_state, queue_result, mainVars, providerVars,
                   startVars, statusVars>>

\* ProcessorApi::queue called once stop() was asked of the processor: the
\* enqueue is refused with an error and nothing is queued.
QueueRefused(h) ==
    /\ processor_state # "running"
    /\ queue_result' = "err"
    /\ UNCHANGED <<threadVars, workerVars, apiVars, sysVars, histVars, stop_at,
                   web_state, processor_state, mainVars, providerVars,
                   startVars, statusVars>>

FisherStop ==
    \/ StopWebLock
    \/ StopProcessorCall
    \/ ProcessorDrained
    \/ \E t \in Threads : ProcessorStopThread(t)
    \/ ProcessorStopped
    \/ StopProcessorReturn
    \/ StopWebStop

\* reload(&mut self) is called only while the owner has not called stop(self).
ReloadBeforeStop == stop_at = "running" /\ Reload

\* The running application with a stop: requests arrive, jobs run, the owner
\* reloads, and at some point it calls RunningFisher::stop, after which it
\* has no RunningFisher to reload.
StopNext ==
    \/ \E t \in Threads : Worker(t)
    \/ \E t \in Threads : SchedulerJobEnded(t)
    \/ \E h \in HookNames : Request(h)
    \/ ReloadBeforeStop
    \/ FisherStop
    \/ \E h \in HookNames : QueueRefused(h)

SpecStop == Init /\ [][StopNext]_vars

\* ------------------------------------------------------- Providers registry

MaxAdds == 3

\* (mutant) add that keeps what is already registered under the name
ProvidersAddKeepsFirst(reg, n, p) ==
    IF reg[n] = NoProvider THEN [reg EXCEPT ![n] = p] ELSE reg

\* Providers::add: self.providers.insert(name.to_string(), provider)
ProvidersAdd(reg, n, p) == [reg EXCEPT ![n] = p]

\* Providers::by_name: a clone of the entry, or ProviderNotFound(name)
ProvidersByName(reg, n) ==
    IF reg[n] # NoProvider
    THEN [name |-> n, kind |-> "Ok", value |-> reg[n]]
    ELSE [name |-> n, kind |-> "ProviderNotFound", value |-> n]

\* providers.add(n, p)
CallAdd(n, p) ==
    /\ Len(adds) < MaxAdds
    /\ registry' = ProvidersAdd(registry, n, p)
    /\ adds' = Append(adds, <<n, p>>)
    /\ UNCHANGED <<threadVars, workerVars, apiVars, sysVars, histVars,
                   stopVars, mainVars, looked, hook_provider, answers,
                   startVars, statusVars>>

\* providers.by_name(&n): by_name takes &self
CallByName(n) ==
    /\ looked' = ProvidersByName(registry, n)
    /\ UNCHANGED <<threadVars, workerVars, apiVars, sysVars, histVars,
                   stopVars, mainVars, registry, adds, hook_provider, answers,
                   startVars, statusVars>>

RegistryNext ==
    \/ \E n \in ProviderNames, p \in ProviderValues : CallAdd(n, p)
    \/ \E n \in ProviderNames : CallByName(n)

SpecRegistry == Init /\ [][RegistryNext]_vars

\* ------------------------------------------------- Provider, HookProvider

\* Provider::check_config: (self.check_config_func)(config).  "Ok", or the
\* kind of the error.  The provider of the tests accepts all but "FAIL".
ProviderCheckConfig(p, config) ==
    CASE p = "sample" -> IF config # "FAIL" THEN "Ok" ELSE "ProviderNotFound"
      [] p = "keyed" -> IF config # "FAIL" THEN "Ok" ELSE "InvalidInput"

\* Provider::request_type: (self.request_type_func)(req, config)
ProviderRequestType(p, req, config) ==
    CASE p = "sample" ->
            IF req.request_type = "ping" THEN "Ping" ELSE "ExecuteHook"
      [] p = "keyed" ->
            IF config = "yes" /\ req.request_type = "ping"
            THEN "Ping" ELSE "ExecuteHook"

\* Provider::validate: (self.validator_func)(req, config)
ProviderValidate(p, req, config) ==
    CASE p = "sample" ->
            IF req.secret # "none" THEN req.secret = "testing" ELSE TRUE
      [] p = "keyed" -> req.secret = config

\* Provider::env: (self.env_func)(req, config), a map written as its pairs
ProviderEnv(p, req, config) ==
    CASE p = "sample" -> {}
      [] p = "keyed" -> {<<"CONFIG", config>>}

\* (mutant) HookProvider::new without the check_config call
HookProviderNewUnchecked(p, config) ==
    [kind |-> "Ok", error |-> "none",
     built |-> [provider |-> p, config |-> config]]

\* HookProvider::new: try!(provider.check_config(&config)), then
\* Ok(HookProvider { provider, config })
HookProviderNew(p, config) ==
    LET checked == ProviderCheckConfig(p, config)
    IN IF checked # "Ok"
       THEN [kind |-> "Err", error |-> checked, built |-> NoBuilt]
       ELSE [kind |-> "Ok", error |-> "none",
             built |-> [provider |-> p, config |-> config]]

\* HookProvider::request_type / validate / env: the provider's function with
\* &self.config
HookProviderRequestType(hp, req) ==
    ProviderRequestType(hp.provider, req, hp.config)

HookProviderValidate(hp, req) == ProviderValidate(hp.provider, req, hp.config)

HookProviderEnv(hp, req) == ProviderEnv(hp.provider, req, hp.config)

\* HookProvider::new(p, config) is called
CallHookProviderNew(p, config) ==
    /\ hook_provider' = [provider |-> p, config |-> config,
                         returned |-> HookProviderNew(p, config)]
    /\ UNCHANGED <<threadVars, workerVars, apiVars, sysVars, histVars,
                   stopVars, mainVars, registry, adds, looked, answers,
                   startVars, statusVars>>

\* The HookProvider the last call built is asked about request req.
CallAnswers(req) ==
    /\ hook_provider.returned.kind = "Ok"
    /\ LET hp == hook_provider.returned.built
       IN answers' = [by |-> hp, request |-> req,
                      request_type |-> HookProviderRequestType(hp, req),
                      validate |-> HookProviderValidate(hp, req),
                      env |-> HookProviderEnv(hp, req)]
    /\ UNCHANGED <<threadVars, workerVars, apiVars, sysVars, histVars,
                   stopVars, mainVars, registry, adds, looked, hook_provider,
                   startVars, statusVars>>

HookProviderNext ==
    \/ \E p \in ProviderValues, config \in Configs :
            CallHookProviderNew(p, config)
    \/ \E req \in Requests : CallAnswers(req)

SpecHookProvider == Init /\ [][HookProviderNext]_vars

\* ------------------------------------------------------------------ main

\* The statement main runs after statement stmt; `collected` is what
\* hooks::collect returned inside get_hooks, which exits the process on Err.
MainAfter(stmt, collected) ==
    CASE stmt = "notify" -> "parse"
      [] stmt = "parse" -> "get_hooks"
      [] stmt = "get_hooks" ->
            IF collected = "ok" THEN "processor_new" ELSE "exited"
      [] stmt = "processor_new" -> "webapi_new"
      [] stmt = "webapi_new" -> "listen"
      [] stmt = "listen" -> "recv"
      [] stmt = "recv" -> "webapi_stop"
      [] stmt = "webapi_stop" -> "return"
      [] stmt = "return" -> "exited"

\* The process before main's first statement: no processor, no web API.
InitMain ==
    /\ InitPool({})
    /\ stop_at = "running"
    /\ web_state = "none"
    /\ processor_state = "none"
    /\ main_pc = "notify"
    /\ exit_code = "none"
    /\ subscriptions = SampleSubscriptions
    /\ start_pc = "none"
    /\ start_result = "none"

\* A statement of main that touches neither processor nor web API:
\* chan_signal::notify(&[Signal::INT, Signal::TERM]), cli::parse(),
\* web::WebAPI::new()
MainPlain(stmt) ==
    /\ main_pc = stmt
    /\ stmt \in {"notify", "parse", "webapi_new"}
    /\ main_pc' = MainAfter(stmt, "ok")
    /\ UNCHANGED <<threadVars, workerVars, apiVars, sysVars, histVars,
                   stopVars, exit_code, signal, providerVars, startVars,
                   statusVars>>

\* get_hooks(&options.hooks_dir): the hooks, or exit(1) when collect failed
MainGetHooks ==
    /\ main_pc = "get_hooks"
    /\ \E collected \in {"ok", "err"} :
        /\ main_pc' = MainAfter("get_hooks", collected)
        /\ exit_code' = IF collected = "ok" THEN exit_code ELSE "1"
    /\ UNCHANGED <<threadVars, workerVars, apiVars, sysVars, histVars,
                   stopVars, signal, providerVars, startVars, statusVars>>

\* processor::ProcessorInstance::new(&hooks): the pool's Threads exist
MainProcessorNew ==
    /\ main_pc = "processor_new"
    /\ processor_state' = "running"
    /\ pc' = [t \in Threads |-> "check_stop"]
    /\ stop_pc' = [t \in Threads |-> "none"]
    /\ main_pc' = MainAfter("processor_new", "ok")
    /\ UNCHANGED <<currently_running, should_stop, communication, token, job,
                   result, apiVars, sysVars, histVars, stop_at, web_state,
                   queue_result, exit_code, signal, providerVars, startVars,
                   statusVars>>

\* webapi.listen(&options.bind)
MainListen ==
    /\ main_pc = "listen"
    /\ web_state' = "listening"
    /\ main_pc' = MainAfter("listen", "ok")
    /\ UNCHANGED <<threadVars, workerVars, apiVars, sysVars, histVars,
                   stop_at, processor_state, queue_result, exit_code, signal,
                   providerVars, startVars, statusVars>>

\* SIGINT or SIGTERM is sent to the process once notify registered them.
SignalArrives(sig) ==
    /\ main_pc \notin {"notify", "exited"}
    /\ signal = "none"
    /\ signal' = sig
    /\ UNCHANGED <<threadVars, workerVars, apiVars, sysVars, histVars,
                   stopVars, main_pc, exit_code, providerVars, startVars,
                   statusVars>>

\* exit_signal.recv().unwrap() returns with the signal
MainRecv ==
    /\ main_pc = "recv"
    /\ signal # "none"
    /\ main_pc' = MainAfter("recv", "ok")
    /\ UNCHANGED <<threadVars, workerVars, apiVars, sysVars, histVars,
                   stopVars, exit_code, signal, providerVars, startVars,
                   statusVars>>

\* webapi.stop()
MainWebStop ==
    /\ main_pc = "webapi_stop"
    /\ web_state' = "stopped"
    /\ main_pc' = MainAfter("webapi_stop", "ok")
    /\ UNCHANGED <<threadVars, workerVars, apiVars, sysVars, histVars,
                   stop_at, processor_state, queue_result, exit_code, signal,
                   providerVars, startVars, statusVars>>

\* main returns: the process exits with status 0, whatever its other
\* threads are doing.
MainReturn ==
    /\ main_pc = "return"
    /\ exit_code' = "0"
    /\ main_pc' = MainAfter("return", "ok")
    /\ UNCHANGED <<threadVars, workerVars, apiVars, sysVars, histVars,
                   stopVars, signal, providerVars, startVars, statusVars>>

Main ==
    \/ \E stmt \in {"notify", "parse", "webapi_new"} : MainPlain(stmt)
    \/ MainGetHooks
    \/ MainProcessorNew
    \/ MainListen
    \/ MainRecv
    \/ MainWebStop
    \/ MainReturn

\* A request served by the listening web API
MainRequest(h) == web_state = "listening" /\ Request(h)

\* The pool's threads and the scheduler run while the process lives.
MainWorker(t) == main_pc # "exited" /\ Worker(t)

MainJobEnded(t) == main_pc # "exited" /\ SchedulerJobEnded(t)

\* The host program: main, the signals sent to it, the requests the
\* listening web API serves, and the pool's threads while the process lives.
MainNext ==
    \/ Main
    \/ \E sig \in {"INT", "TERM"} : SignalArrives(sig)
    \/ \E h \in HookNames : MainRequest(h)
    \/ \E t \in Threads : MainWorker(t)
    \/ \E t \in Threads : MainJobEnded(t)

SpecMain == InitMain /\ [][MainNext]_vars

\* ----------------------------------------------------------- Fisher::start

\* (mutant) start that returns the web API's error without stopping the
\* processor
StartAfterNoStop(stmt, outcome) ==
    CASE stmt = "processor_new" ->
            IF outcome = "ok" THEN "webapp_new" ELSE "returned"
      [] stmt = "webapp_new" -> "returned"
      [] stmt = "processor_stop" -> "returned"

\* The statement Fisher::start runs after statement stmt, which went ok or
\* err:  Processor::new(..)?;  match WebApp::new(..) { Ok(socket) => socket,
\* Err(error) => { processor.stop()?; return Err(error); } };  Ok(..)
StartAfter(stmt, outcome) ==
    CASE stmt = "processor_new" ->
            IF outcome = "ok" THEN "webapp_new" ELSE "returned"
      [] stmt = "webapp_new" ->
            IF outcome = "ok" THEN "returned" ELSE "processor_stop"
      [] stmt = "processor_stop" -> "returned"

\* A Fisher about to be started: no processor, no web API, no Thread.
InitStart ==
    /\ InitPool({})
    /\ stop_at = "running"
    /\ web_state = "none"
    /\ processor_state = "none"
    /\ main_pc = "none"
    /\ exit_code = "none"
    /\ subscriptions = SampleSubscriptions
    /\ start_pc = "processor_new"
    /\ start_result = "none"

\* Processor::new(self.max_threads, ..)?: the pool's Threads are made and
\* their worker threads run, or start returns the error.
StartProcessorNew ==
    /\ start_pc = "processor_new"
    /\ \/ \E max_threads \in 1..Cardinality(Threads) :
            /\ processor_state' = "running"
            /\ pc' = [t \in Threads |->
                        IF t \in PoolOf(max_threads) THEN "check_stop"
                                                     ELSE pc[t]]
            /\ stop_pc' = [t \in Threads |->
                        IF t \in PoolOf(max_threads) THEN "none"
                                                     ELSE stop_pc[t]]
            /\ start_pc' = StartAfter("processor_new", "ok")
            /\ UNCHANGED start_result
       \/ /\ start_pc' = StartAfter("processor_new", "err")
          /\ start_result' = "err"
          /\ UNCHANGED <<processor_state, pc, stop_pc>>
    /\ UNCHANGED <<currently_running, should_stop, communication, token, job,
                   result, apiVars, sysVars, histVars, stop_at, web_state,
                   queue_result, mainVars, providerVars, statusVars>>

\* WebApp::new(..): the web API listens and start returns the
\* RunningFisher, or it failed and start goes into the Err arm.
StartWebApp ==
    /\ start_pc = "webapp_new"
    /\ \E outcome \in {"ok", "err"} :
        /\ start_pc' = StartAfter("webapp_new", outcome)
        /\ web_state' = IF outcome = "ok" THEN "listening" ELSE web_state
        /\ start_result' =
             IF start_pc' = "returned" THEN outcome ELSE start_result
    /\ UNCHANGED <<threadVars, workerVars, apiVars, sysVars, histVars,
                   stop_at, processor_state, queue_result, mainVars,
                   providerVars, statusVars>>

\* processor.stop() is called in the Err arm: the scheduler enters Stopping.
StartProcessorStopCall ==
    /\ start_pc = "processor_stop"
    /\ processor_state = "running"
    /\ processor_state' = "stopping"
    /\ locked' = TRUE
    /\ UNCHANGED <<threadVars, workerVars, apiVars, web_locked, hooks, queues,
                   last_served, reload_pc, reload_result, histVars, stop_at,
                   web_state, queue_result, mainVars, providerVars, startVars,
                   statusVars>>

\* processor.stop()? has returned; `return Err(error)`
StartReturnErr ==
    /\ start_pc = "processor_stop"
    /\ processor_state = "stopped"
    /\ start_pc' = StartAfter("processor_stop", "ok")
    /\ start_result' = "err"
    /\ UNCHANGED <<threadVars, workerVars, apiVars, sysVars, histVars,
                   stopVars, mainVars, providerVars, statusVars>>

\* The processor's own stop, on the pool that was started: Threads that were
\* never made count as stopped.
StartProcessorStops ==
    \/ ProcessorDrained
    \/ \E t \in Threads :
          /\ processor_state = "stopping_workers"
          /\ \A u \in Threads : u < t => stop_pc[u] \in {"joined", "absent"}
          /\ \/ StopStore(t)
             \/ StopUnpark(t)
             \/ StopJoin(t)
    \/ /\ processor_state = "stopping_workers"
       /\ \A t \in Threads : stop_pc[t] \in {"joined", "absent"}
       /\ processor_state' = "stopped"
       /\ UNCHANGED <<threadVars, workerVars, apiVars, sysVars, histVars,
                      stop_at, web_state, queue_result, mainVars, providerVars,
                      startVars, statusVars>>

FisherStart ==
    \/ StartProcessorNew
    \/ StartWebApp
    \/ StartProcessorStopCall
    \/ StartProcessorStops
    \/ StartReturnErr

\* A request served by the web API of a started Fisher
StartedRequest(h) == web_state = "listening" /\ Request(h)

\* Fisher::start, the threads it starts, and the application it leaves
\* running when it returns Ok.
StartNext ==
    \/ FisherStart
    \/ \E h \in HookNames : StartedRequest(h)
    \/ \E t \in Threads : Worker(t)
    \/ \E t \in Threads : SchedulerJobEnded(t)

SpecStart == InitStart /\ [][StartNext]_vars

\* ------------------------------------------------------------ status events

\* The event of a completed job: job_completed on success, job_failed otherwise
EventOf(success) == IF success THEN "job_completed" ELSE "job_failed"

\* (mutant) events are emitted for status jobs as well
StatusHooksForAny(subs, j, event) ==
    {h \in StatusHookNames :
        j.hook \in subs[h].hooks /\ event \in subs[h].events}

\* The hooks a status job is synthesized for when job j completes with
\* `event`: every hook whose subscription lists j's hook name and the event;
\* none when j itself was a status event.
StatusHooksFor(subs, j, event) ==
    IF j.status
    THEN {}
    ELSE {h \in StatusHookNames :
            j.hook \in subs[h].hooks /\ event \in subs[h].events}

\* The ids in use: jobs get the ids 1, 2, ... in the order they are enqueued.
UsedStatusIds == {i \in StatusJobIds : status_jobs[i] # NoStatusJob}

\* An order in which the hooks of set S are served.
InOrder(S) ==
    CHOOSE f \in [1..Cardinality(S) -> S] :
        \A a, b \in 1..Cardinality(S) : a # b => f[a] # f[b]

\* A hook request: a job of hook h, no status event, is enqueued.
StatusRequest(h) ==
    /\ Cardinality(UsedStatusIds) < MaxStatusJobs
    /\ status_jobs' =
         [status_jobs EXCEPT ![Cardinality(UsedStatusIds) + 1] =
             [hook |-> h, status |-> FALSE, parent |-> 0, event |-> "none",
              state |-> "queued"]]
    /\ UNCHANGED <<threadVars, workerVars, apiVars, sysVars, histVars,
                   stopVars, mainVars, providerVars, startVars, subscriptions>>

\* Job i completes, successfully or not, and the scheduler emits the status
\* events of its completion: one status job per matching hook is enqueued.
StatusJobCompleted(i, success) ==
    /\ status_jobs[i].state = "queued"
    /\ LET event == EventOf(success)
           notify == StatusHooksFor(subscriptions, status_jobs[i], event)
           used == Cardinality(UsedStatusIds)
           order == InOrder(notify)
       IN /\ used + Cardinality(notify) <= MaxStatusJobs
          /\ status_jobs' =
               [k \in StatusJobIds |->
                   IF k = i THEN [status_jobs[i] EXCEPT !.state = "done"]
                   ELSE IF k > used /\ k <= used + Cardinality(notify)
                   THEN [hook |-> order[k - used], status |-> TRUE,
                         parent |-> i, event |-> event, state |-> "queued"]
                   ELSE status_jobs[k]]
    /\ UNCHANGED <<threadVars, workerVars, apiVars, sysVars, histVars,
                   stopVars, mainVars, providerVars, startVars, subscriptions>>

StatusNext ==
    \/ \E h \in StatusHookNames : StatusRequest(h)
    \/ \E i \in StatusJobIds, success \in BOOLEAN :
            StatusJobCompleted(i, success)

\* Jobs and their status events, for each of the subscription configurations.
InitStatus ==
    /\ InitPool(Threads)
    /\ stop_at = "running"
    /\ web_state = "listening"
    /\ processor_state = "running"
    /\ main_pc = "none"
    /\ exit_code = "none"
    /\ start_pc = "returned"
    /\ start_result = "ok"
    /\ subscriptions \in SubscriptionConfigs

SpecStatus == InitStatus /\ [][StatusNext]_vars

\* ================================================================== claims

\* The ids of the jobs Thread::process accepted so far.
Accepted == UNION {{delivered[h][k] : k \in 1..Len(delivered[h])} : h \in HookNames}

\* A worker thread is inside job.execute: the job's script is running.
Executing(t) == pc[t] = "execute"

\* ---- C1 (as claimed).  Every job Thread::process accepted is executed
\* exactly once by the worker: never twice, and once the worker thread has
\* exited no accepted job is left unexecuted, whenever Thread::stop was called.
C1_AcceptedExecutedOnce ==
    \A i \in Accepted :
        /\ executed[i] <= 1
        /\ (\A t \in Owned : pc[t] = "exited") => executed[i] = 1

\* ---- C2.  A worker holds at most one job at any instant; a process call
\* returns Executing exactly when the Thread is idle and not stopping, and
\* otherwise returns Rejected with the very job it was given, leaving the
\* inbox and currently_running as they were.
C2_OneJobHeld ==
    \A t \in Threads : communication[t] = NoJob \/ job[t] = NoJob

C2_ProcessStep ==
    last_call' # last_call =>
        LET t == last_call'.thread
            r == last_call'.result
        IN /\ r.kind \in {"Executing", "Rejected"}
           /\ r.kind = "Executing" <=>
                (currently_running[t] = None /\ ~should_stop[t])
           /\ r.kind = "Executing" =>
                /\ communication'[t] = last_call'.job
                /\ currently_running'[t] = last_call'.job.hook
           /\ r.kind = "Rejected" =>
                /\ r.job = last_call'.job
                /\ communication' = communication
                /\ currently_running' = currently_running

\* C2: at most one job per worker at any instant, and every process call
\* accepts exactly when the Thread is idle and not stopping, else rejects
\* with the same job and changes nothing.
C2_ProcessContract == [](C2_OneJobHeld) /\ [][C2_ProcessStep]_vars

\* A process call was rejected by a busy Thread whose inbox still holds the
\* job accepted before.
C2_RejectedWhileBusy ==
    /\ last_call.result.kind = "Rejected"
    /\ currently_running[last_call.thread] # None
    /\ ~should_stop[last_call.thread]
    /\ communication[last_call.thread] # NoJob

\* ---- C3.  For every hook with parallel=false at most one worker has
\* currently_running equal to that hook.
C3_SerialHookRunsOnce ==
    \A h \in HookNames \ ParallelHooks :
        Cardinality({t \in Threads : currently_running[t] = h}) <= 1

\* A serial hook runs on one worker and has a job waiting while another worker
\* is idle.
C3_SerialHookWaits ==
    \E h \in HookNames \ ParallelHooks :
        /\ queues[h] # <<>>
        /\ \E t \in Threads : currently_running[t] = h
        /\ \E t \in Threads : currently_running[t] = None

\* ---- C4.  Per-hook FIFO: for a hook with parallel=false the jobs handed to
\* workers are, in order, the jobs enqueued for that hook (those cleanup
\* dropped left out): the delivery sequence is a prefix of the enqueue
\* sequence.
IsPrefix(a, b) ==
    /\ Len(a) <= Len(b)
    /\ \A k \in 1..Len(a) : a[k] = b[k]

NotDropped(i) == i \notin dropped

\* C4: for a serial hook the delivery sequence is a prefix of its enqueue
\* sequence.
C4_PerHookFifo ==
    \A h \in HookNames \ ParallelHooks :
        IsPrefix(delivered[h], SelectSeq(enqueued[h], NotDropped))

\* Two jobs of a serial hook were handed to workers, the second after the
\* first was executed.
C4_TwoDelivered ==
    \E h \in HookNames \ ParallelHooks :
        /\ Len(delivered[h]) >= 2
        /\ executed[delivered[h][1]] = 1

\* ---- C5.  In reload the front-end is locked before the scheduler and
\* unlocked after it: the statements run in the order web_api.lock,
\* processor.lock, hooks reload, (cleanup), processor.unlock, web_api.unlock,
\* and the scheduler is never locked while the front-end is unlocked.
C5_LockNesting ==
    /\ locked => web_locked
    /\ reload_pc = "processor_lock" => web_locked /\ ~locked
    /\ reload_pc \in {"hooks_reload", "cleanup", "processor_unlock"} =>
           web_locked /\ locked
    /\ reload_pc = "web_unlock" => web_locked /\ ~locked

C5_StatementOrder ==
    reload_pc' # reload_pc =>
        <<reload_pc, reload_pc'>> \in
            { <<"idle", "processor_lock">>,
              <<"processor_lock", "hooks_reload">>,
              <<"hooks_reload", "cleanup">>,
              <<"hooks_reload", "processor_unlock">>,
              <<"cleanup", "processor_unlock">>,
              <<"processor_unlock", "web_unlock">>,
              <<"web_unlock", "idle">> }

\* C5: the scheduler is locked only inside the front-end lock, and reload's
\* statements run in the order of the claim.
C5_ReloadLockOrder == [](C5_LockNesting) /\ [][C5_StatementOrder]_vars

\* A successful reload has unlocked the scheduler and still holds the
\* front-end lock.
C5_SchedulerUnlockedFirst ==
    /\ reload_pc = "web_unlock"
    /\ reload_result = "ok"
    /\ web_locked
    /\ ~locked

\* ---- C6.  No request is enqueued while reload runs: every enqueue happens
\* outside reload and for a hook of the snapshot of that moment, and once
\* cleanup ran no queue holds a job of a hook the reload removed.
C6_EnqueueStep ==
    enqueued' # enqueued =>
        /\ reload_pc = "idle"
        /\ reload_pc' = "idle"
        /\ \A h \in HookNames : enqueued'[h] # enqueued[h] => h \in hooks

C6_CleanQueues ==
    (reload_pc \in {"processor_unlock", "web_unlock"} /\ reload_result = "ok")
        => \A h \in HookNames \ hooks : queues[h] = <<>>

\* C6: no enqueue between the start and the end of reload, every enqueue is
\* for a hook of the current snapshot, and after cleanup no queue holds a job
\* of a removed hook.
C6_NoEnqueueDuringReload == [](C6_CleanQueues) /\ [][C6_EnqueueStep]_vars

\* cleanup dropped queued jobs and the front-end is still locked.
C6_CleanedBeforeUnlock ==
    /\ reload_pc = "web_unlock"
    /\ reload_result = "ok"
    /\ dropped # {}
    /\ web_locked

\* ---- C7 (as claimed).  Whenever reload invokes cleanup, the scheduler is
\* locked and no job is executing on any worker.
C7_CleanupWhileQuiet ==
    reload_pc = "cleanup" =>
        /\ locked
        /\ \A t \in Threads : ~Executing(t)

\* ---- C8.  When collecting the hooks fails, reload does not call cleanup:
\* the snapshot, the queues and the dropped jobs stay as they were, the
\* scheduler and then the front-end are unlocked, and reload returns the
\* error.
C8_FailedReloadPath ==
    reload_result = "err" =>
        /\ reload_pc \in {"processor_unlock", "web_unlock", "idle"}
        /\ reload_pc = "processor_unlock" => locked /\ web_locked
        /\ reload_pc = "web_unlock" => ~locked /\ web_locked
        /\ reload_pc = "idle" => ~locked /\ ~web_locked

C8_FailedReloadStep ==
    (reload_result' = "err" /\ reload_pc' # reload_pc) =>
        /\ dropped' = dropped
        /\ hooks' = hooks
        /\ reload_pc = "hooks_reload" => queues' = queues

Queued == UNION {{queues[h][k] : k \in 1..Len(queues[h])} : h \in HookNames}

\* C9: jobs dropped by cleanup never reach a worker, and after cleanup no
\* queue holds a job of a hook that is not in the snapshot.
C9_DroppedNeverRun ==
    /\ \A i \in dropped :
        /\ i \notin Accepted
        /\ i \notin Queued
        /\ executed[i] = 0
        /\ \A t \in Threads : communication[t].id # i /\ job[t].id # i
    /\ reload_pc # "cleanup" =>
        \A h \in HookNames \ hooks : queues[h] = <<>>

\* After the reload, jobs of a removed hook were dropped while a job of that
\* hook that was in flight is still executing.
C9_InFlightSurvives ==
    /\ dropped # {}
    /\ reload_pc = "idle"
    /\ \E t \in Threads : Executing(t) /\ job[t].hook \notin hooks

\* ---- C10.  Between lock() and the next unlock() no job is handed to a
\* worker, also when a job completes meanwhile, and every enqueue of that
\* interval is appended to its queue and stays there.
C10_LockedStep ==
    (locked /\ locked') =>
        /\ delivered' = delivered
        /\ \A t \in Threads : communication'[t] \in {communication[t], NoJob}
        /\ \A h \in HookNames :
            /\ IsPrefix(queues[h], queues'[h])
            /\ enqueued'[h] # enqueued[h] =>
                 queues'[h] = Append(queues[h], enqueued'[h][Len(enqueued'[h])])

\* C10: every step taken while the scheduler stays locked hands no job to a
\* worker and only appends to the queues.
C10_NoDispatchWhileLocked == [][C10_LockedStep]_vars

\* While locked, a job waits for a hook that could run on an idle worker,
\* and a completion has been handled.
C10_WaitingWhileLocked ==
    /\ locked
    /\ completed = {}
    /\ \E i \in JobIds : executed[i] = 1
    /\ \E h \in HookNames :
        /\ queues[h] # <<>>
        /\ RunningPerHook(currently_running, h) = 0
    /\ \E t \in Threads : ~Busy(currently_running, t)

\* The worker thread of Thread t has work of an accepted job left: the job
\* lies in the inbox or the worker holds it (executing or about to send
\* job_ended).
JobInProgress(t) == communication[t] # NoJob \/ job[t] # NoJob

\* A job_ended notification of Thread t waits to be handled by the owner.
JobEndedPending(t) == \E m \in completed : m[1] = t

\* ---- C11 (as claimed).  busy() is true exactly from the moment process
\* accepts a job until the worker sent that job's job_ended notification, and
\* false before any job was accepted and after the job completed.
C11_BusyUntilJobEnded ==
    \A t \in Threads : Busy(currently_running, t) <=> JobInProgress(t)

\* ---- C11 (amended).  busy() is true exactly from the moment process accepts
\* a job until the owner calls mark_idle in response to that job's job_ended
\* notification: it is still true while the notification waits to be handled,
\* and false before any job was accepted and after mark_idle.
C11_BusyUntilMarkedIdle ==
    \A t \in Threads :
        Busy(currently_running, t) <=> (JobInProgress(t) \/ JobEndedPending(t))

\* The job completed, its job_ended was sent and is not handled yet: the
\* Thread is still busy while its worker loops on.
C11_BusyAfterJobEnded ==
    /\ JobEndedPending(1)
    /\ ~JobInProgress(1)
    /\ Busy(currently_running, 1)
    /\ pc[1] \in {"check_stop", "take", "park"}

\* ---- C12 (as claimed).  When job.execute returned Err, an Output of the
\* job (success=false) was recorded with the scheduler before the worker
\* sends job_ended.
C12_FailureReported ==
    \A t \in Threads :
        (pc[t] = "job_ended" /\ result[t] = "err") => job[t].id \in outputs

\* A worker thread leaves its loop only through the stop flag.
C13_ExitsOnlyOnStop ==
    \A t \in Threads : pc[t] = "exited" => should_stop[t]

\* The step a worker takes after a failed execute sends job_ended for that
\* job and goes back to the top of the loop.
C13_FailedStep ==
    \A t \in Threads :
        (pc[t] = "job_ended" /\ result[t] = "err" /\ pc'[t] # pc[t]) =>
            /\ completed' = completed \cup {<<t, job[t].id>>}
            /\ pc'[t] = "check_stop"

C14_StopReturns ==
    /\ [](\A t \in Threads : stop_pc[t] = "joined" => pc[t] = "exited")
    /\ \A t \in Owned : (stop_pc[t] = "stored") ~> (stop_pc[t] = "joined")

\* stop returned for a Thread that was busy when stop was called and whose
\* job ran to its job_ended.
C14_StoppedWhileBusy ==
    /\ stop_pc[1] = "joined"
    /\ pc[1] = "exited"
    /\ Busy(currently_running, 1)
    /\ JobEndedPending(1)

\* The ids of the jobs enqueued so far.
EnqueuedIds ==
    UNION {{enqueued[h][k] : k \in 1..Len(enqueued[h])} : h \in HookNames}

\* ---- C15 (as claimed).  Graceful stop loses no job: once stop() has
\* returned, every job enqueued before stop() was called, running or still
\* queued then (and not dropped by a reload's cleanup), has been executed and
\* its completion handled, and an enqueue attempted since was answered with
\* an error.
C15_NoJobLost ==
    stop_at = "stopped" =>
        /\ \A i \in EnqueuedIds \ dropped : executed[i] = 1
        /\ completed = {}
        /\ queue_result \in {"none", "err"}

\* The order of stop's statements, seen in the state: the processor is asked
\* to stop only with the front-end locked, and the web server is stopped
\* only when processor.stop has returned.
C16_StopOrder ==
    /\ processor_state # "running" => web_locked
    /\ web_state = "stopped" => (processor_state = "stopped" /\ web_locked)
    /\ web_state = "stopped" <=> stop_at = "stopped"

\* A step taken once processor.stop has begun admits no hook request, and a
\* step taken once stop has locked the front-end leaves it locked.
C16_StopStep ==
    /\ processor_state # "running" =>
         (enqueued' = enqueued /\ next_id' = next_id /\ queues' = queues)
    /\ stop_at # "running" => web_locked'

\* ---- C16.  RunningFisher::stop locks the web front-end first, then stops
\* the processor, and stops the web server only after processor.stop has
\* returned; from the moment processor.stop begins no hook request is
\* admitted, and the front-end is never unlocked again.
C16_StopSequence == []C16_StopOrder /\ [][C16_StopStep]_vars

\* stop has returned after an earlier reload had unlocked the front-end:
\* processor and web server are stopped, the front-end is still locked.
C16_StoppedAfterReload ==
    /\ stop_at = "stopped"
    /\ reload_result = "ok"
    /\ web_locked
    /\ processor_state = "stopped"
    /\ web_state = "stopped"
    /\ \E i \in JobIds : executed[i] = 1

\* The jobs the workers hold: executing, about to be reported, or waiting in
\* an inbox to be taken.
JobsAtWorkers ==
    ({communication[t].id : t \in Threads} \cup {job[t].id : t \in Threads})
        \ {NoJob.id}

\* ---- C17.  With max_threads = 1, the default of Fisher::new, at most one
\* job is executing at any instant (indeed at most one job is with the pool
\* at all), whatever the hooks' parallel flags and the interleaving of
\* requests, completions and reloads.
C17_OneJobAtATime ==
    /\ Cardinality({t \in Threads : Executing(t)}) <= 1
    /\ Cardinality(JobsAtWorkers) <= 1

\* A job of the parallel hook executes while another job of that hook waits
\* in the queue of an unlocked scheduler: only the pool size holds it back.
C17_ParallelHookWaits ==
    /\ \E t \in Threads : Executing(t) /\ job[t].hook \in ParallelHooks
    /\ \E h \in ParallelHooks : queues[h] # <<>>
    /\ ~locked

\* What by_name(n) is to return after the add calls of sequence a: the
\* provider of the last call made with name n, or ProviderNotFound(n).
LastAdded(a, n) ==
    LET at == {k \in 1..Len(a) : a[k][1] = n}
    IN IF at = {}
       THEN [name |-> n, kind |-> "ProviderNotFound", value |-> n]
       ELSE [name |-> n, kind |-> "Ok",
             value |-> a[CHOOSE k \in at : \A l \in at : l <= k][2]]

\* After the add calls made so far, every name looks up as its last add.
C18_LooksUpLastAdded ==
    \A n \in ProviderNames : ProvidersByName(registry, n) = LastAdded(adds, n)

\* A by_name call returns that and leaves the registry as it is.
C18_ByNameStep ==
    looked' # looked =>
        /\ looked' = LastAdded(adds, looked'.name)
        /\ registry' = registry

\* ---- C18.  After any sequence of Providers::add calls, by_name(n) returns
\* Ok with the provider most recently added under n if some add used n, and
\* otherwise the error ProviderNotFound carrying n; by_name never modifies
\* the registry.
C18_ByNameContract == []C18_LooksUpLastAdded /\ [][C18_ByNameStep]_vars

\* A name was added twice with different providers and looked up: the second
\* provider came back; the other name, never added, is not found.
C18_Overwritten ==
    \E n \in ProviderNames :
        /\ Len(adds) >= 2
        /\ adds[1][1] = n /\ adds[2][1] = n /\ adds[1][2] # adds[2][2]
        /\ looked = [name |-> n, kind |-> "Ok", value |-> adds[2][2]]
        /\ \E o \in ProviderNames :
             ProvidersByName(registry, o).kind = "ProviderNotFound"

\* What the last HookProvider::new call returned is what check_config said
\* of its arguments: the error and no HookProvider, or Ok with a
\* HookProvider holding that provider and that config.
C19_NewChecksConfig ==
    hook_provider # NoHookProvider =>
        LET checked == ProviderCheckConfig(hook_provider.provider,
                                           hook_provider.config)
            r == hook_provider.returned
        IN /\ r.kind = "Ok" <=> checked = "Ok"
           /\ checked # "Ok" =>
                (r.kind = "Err" /\ r.error = checked /\ r.built = NoBuilt)
           /\ checked = "Ok" =>
                r.built = [provider |-> hook_provider.provider,
                           config |-> hook_provider.config]

\* The answers of a HookProvider are its provider's answers for the config
\* it holds, and only a HookProvider with an accepted config answers.
C19_AnswersAsProvider ==
    answers # NoAnswers =>
        LET hp == answers.by
        IN /\ hp # NoBuilt
           /\ ProviderCheckConfig(hp.provider, hp.config) = "Ok"
           /\ answers.request_type =
                ProviderRequestType(hp.provider, answers.request, hp.config)
           /\ answers.validate =
                ProviderValidate(hp.provider, answers.request, hp.config)
           /\ answers.env =
                ProviderEnv(hp.provider, answers.request, hp.config)

\* ---- C19.  HookProvider::new validates the config first: it returns the
\* provider's check_config error and builds no HookProvider when the config
\* is rejected, and returns Ok exactly when it is accepted; a built
\* HookProvider answers request_type, validate and env as its provider does
\* with the stored config.
C19_HookProviderContract == C19_NewChecksConfig /\ C19_AnswersAsProvider

\* A HookProvider of the config-reading provider validated a request whose
\* secret is its config, and a later new() with "FAIL" was rejected.
C19_AnsweredThenRejected ==
    /\ answers.by = [provider |-> "keyed", config |-> "testing"]
    /\ answers.request.secret = "testing"
    /\ answers.validate = TRUE
    /\ answers.env = {<<"CONFIG", "testing">>}
    /\ hook_provider.config = "FAIL"
    /\ hook_provider.returned.kind = "Err"

\* ---- C20 (as claimed).  The host program serves until SIGINT or SIGTERM
\* arrived; when main has returned, the web API is stopped and the processor
\* is stopped, its running jobs drained; when hook collection failed the
\* process exited with code 1 and neither processor nor web API was started.
C20_GracefulExit ==
    /\ web_state = "stopped" => signal \in {"INT", "TERM"}
    /\ exit_code = "0" =>
        /\ web_state = "stopped"
        /\ processor_state = "stopped"
        /\ \A t \in Threads : ~JobInProgress(t)
    /\ exit_code = "1" =>
        /\ processor_state = "none"
        /\ web_state = "none"

\* What a worker holds and what it has sent: it holds a job exactly while
\* executing it or about to send its job_ended, whose notification is not
\* sent yet; the Output of a job that ended Ok is recorded by then, and no
\* Output exists while the job still executes.
C21_HeldUnreported ==
    \A t \in Threads :
        /\ job[t] # NoJob <=> pc[t] \in {"execute", "job_ended"}
        /\ job[t] # NoJob => <<t, job[t].id>> \notin completed
        /\ pc[t] = "execute" => job[t].id \notin outputs
        /\ (pc[t] = "job_ended" /\ result[t] = "ok") => job[t].id \in outputs

\* The steps that touch the held job or the notifications: a worker takes a
\* job only while it holds none, sends job_ended only for the job it holds,
\* after the match on the result, and lets go of the job by sending it; an
\* Output is recorded only for a job that executes.
C21_WorkerStep ==
    \A t \in Threads :
        /\ (job'[t] # job[t] /\ job'[t] # NoJob) =>
              (job[t] = NoJob /\ job'[t] = communication[t]
                 /\ completed' = completed)
        /\ (job'[t] # job[t] /\ job'[t] = NoJob) =>
              (pc[t] = "job_ended" /\ outputs' = outputs
                 /\ completed' = completed \cup {<<t, job[t].id>>})
        /\ \A m \in completed' \ completed :
              m[1] = t => (m[2] = job[t].id /\ job'[t] = NoJob)
        /\ \A i \in outputs' \ outputs :
              job[t].id = i => (pc[t] = "execute" /\ completed' = completed)

C22_NoLostWakeup ==
    \A t \in Owned : \A i \in JobIds :
        (communication[t].id = i /\ stop_pc[t] = "none")
            ~> (job[t].id = i \/ stop_pc[t] # "none")

\* The first job executes and the token is used up: the worker was at park
\* when, or before, the unpark of process came, and park returned by it.
C22_TakenAfterUnpark ==
    /\ Executing(1)
    /\ job[1].id = 1
    /\ ~token[1]
    /\ stop_pc[1] = "none"

\* A step that stores a job into an inbox finds the inbox empty.
C23_StoreStep ==
    \A t \in Threads :
        (communication'[t] # communication[t] /\ communication'[t] # NoJob)
            => communication[t] = NoJob

\* A job waiting in an inbox is the one its Thread is marked as running.
C23_StoredIsRunning ==
    \A t \in Threads :
        communication[t] # NoJob => currently_running[t] = communication[t].hook

\* ---- C23.  The one-slot inbox never overwrites a job: with mark_idle
\* called only in response to the worker's job_ended, process stores a job
\* only into an empty inbox, and the Thread stays marked as running the job
\* that waits in its inbox.
C23_InboxNeverOverwritten == []C23_StoredIsRunning /\ [][C23_StoreStep]_vars

\* A second job lies in the inbox after the first was taken and executed.
C23_SecondJobStored ==
    /\ communication[1].id = 2
    /\ executed[1] = 1
    /\ job[1] = NoJob

\* ---- C24 (as claimed).  Whenever RunningFisher::reload has returned, with
\* Ok or with any error, an error of processor.lock, processor.cleanup or
\* processor.unlock included, the scheduler and the web front-end are both
\* unlocked again.
C24_UnlockedAfterReload ==
    (reload_pc = "idle" /\ reload_result # "none") =>
        (~web_locked /\ ~locked)

DerivedFrom(p) ==
    {i \in StatusJobIds : status_jobs[i].status /\ status_jobs[i].parent = p}

\* ---- C26.  Status events never cascade: a status job is always derived
\* from a completed job that is no status job itself, so the completion of a
\* status job produces no further job; the status jobs derived from one job
\* are at most one per subscribed hook, for the event of its completion;
\* also when a status hook subscribes to its own name or two status hooks
\* subscribe to each other.
C26_NoCascade ==
    \A p \in StatusJobIds :
        /\ DerivedFrom(p) # {} =>
              (~status_jobs[p].status /\ status_jobs[p].state = "done")
        /\ Cardinality(DerivedFrom(p)) <= Cardinality(StatusHookNames)
        /\ \A i, k \in DerivedFrom(p) :
              /\ i # k => status_jobs[i].hook # status_jobs[k].hook
              /\ status_jobs[i].event = status_jobs[k].event
              /\ status_jobs[p].hook \in subscriptions[status_jobs[i].hook].hooks
              /\ status_jobs[i].event \in subscriptions[status_jobs[i].hook].events

\* A status job of a hook that observes its own name, or is observed by the
\* other status hook, has completed, and nothing was derived from it although
\* an id was left for a further job.
C26_StatusJobEndsQuietly ==
    \E i \in StatusJobIds :
        /\ status_jobs[i].status
        /\ status_jobs[i].state = "done"
        /\ \E h \in StatusHookNames :
              status_jobs[i].hook \in subscriptions[h].hooks
        /\ DerivedFrom(i) = {}
        /\ status_jobs[MaxStatusJobs] = NoStatusJob

====
